---- MODULE Spec2Model ----
(***************************************************************************)
(* Model of the caching/query layer of the film API:                       *)
(*   services/films.py          FilmService   (Entity Reader)              *)
(*   services/cache_builder.py  scroll_all_movies, build_cache_on_startup  *)
(*                              (Collection Scanner, Derived-Index Builder)*)
(* Redis and Elasticsearch are modelled by what the calls made on them     *)
(* return: a key-value map with expiry, a document list with point gets    *)
(* and snapshot scroll cursors.  Any call on either client may raise.      *)
(*                                                                         *)
(* Field names of a stored document are abstracted: a document has an id,  *)
(* a title, an optional rating, a list of category tags (uuid, name) and   *)
(* three lists of person references (uuid, full_name); the readers read    *)
(* the fields they read in the source under these names.                   *)
(***************************************************************************)
EXTENDS Integers, Sequences, FiniteSets, TLC

VARIABLES
    movies,     \* the "movies" index: documents in scan order, unique ids
    indexExists,\* whether the "movies" index exists at all
    cache,      \* Redis: key -> [kind, obj, exp]
    now,        \* wall clock, seconds
    last,       \* what the last completed FilmService call did
    firstGet,   \* per film id: the Film returned by the get that filled the cache
    writtenAt,  \* per film id: time of the last cache write by get_by_id (-1: never)
    task,       \* per builder task: the locals of build_cache_on_startup
    scrolls,    \* Elasticsearch scroll contexts, one per builder task
    scrollSize  \* SCROLL_SIZE, scaled: documents per scroll batch

vars == <<movies, indexExists, cache, now, last, firstGet, writtenAt, task,
          scrolls, scrollSize>>

----------------------------------------------------------------------------
(* Bounds of the model *)

MaxDocs == 2        \* documents in the index
MaxBatch == 2       \* largest scroll batch size tried
MaxClock == 400     \* the clock stops here
MaxPasses == 2      \* build passes per task (process restarts)

(* Program constants *)
FILM_CACHE_EXPIRE_IN_SECONDS == 300

TickStep == 100

----------------------------------------------------------------------------
(* The universe of documents *)

FilmIds == {"f1", "f2", "f3"}

Ref(u, n) == [uuid |-> u, full_name |-> n]
Tag(u, n) == [uuid |-> u, name |-> n]

Bodies ==
    { [title |-> "T1", imdb_rating |-> <<7>>,
       genres |-> <<Tag("g1", "Drama")>>,
       actors |-> <<Ref("p1", "Alice")>>,
       directors |-> <<>>,
       writers |-> <<Ref("p2", "Alice Smith")>>],
      [title |-> "T2", imdb_rating |-> <<>>,
       genres |-> <<Tag("g1", "Drama"), Tag("g2", "Comedy")>>,
       actors |-> <<Ref("p2", "Alice Smith"), Ref("p1", "Alice")>>,
       directors |-> <<Ref("p1", "Alice")>>,
       writers |-> <<>>],
      [title |-> "T3", imdb_rating |-> <<5>>,
       genres |-> <<Tag("g1", "Dramedy")>>,
       actors |-> <<Ref("p1", "Alice Smith")>>,
       directors |-> <<Ref("p3", "Alice")>>,
       writers |-> <<Ref("p1", "Alice")>>],
      [title |-> "T4", imdb_rating |-> <<>>,
       genres |-> <<>>, actors |-> <<>>, directors |-> <<>>, writers |-> <<>>] }

Doc(i, b) == [id |-> i, title |-> b.title, imdb_rating |-> b.imdb_rating,
              genres |-> b.genres, actors |-> b.actors,
              directors |-> b.directors, writers |-> b.writers]

Docs == {Doc(i, b) : i \in FilmIds, b \in Bodies}

\* collections: at most MaxDocs documents, ids unique (the index is keyed by _id)
Collections ==
    UNION { { s \in [1..n -> Docs] :
                \A i, j \in 1..n : i # j => s[i].id # s[j].id } : n \in 0..MaxDocs }

----------------------------------------------------------------------------
(* Redis *)

IndexKeys == {"genres_cache", "persons_cache"}
CacheKeys == FilmIds \cup IndexKeys

NoExpiry == -1
Absent == [kind |-> "absent", obj |-> <<>>, exp |-> NoExpiry]
Malformed == [kind |-> "malformed", obj |-> <<>>, exp |-> NoExpiry]
Json(o, e) == [kind |-> "json", obj |-> o, exp |-> e]

\* redis.get: nil for a missing key and for one whose expiry has passed
RedisGet(c, t, k) ==
    IF c[k].exp # NoExpiry /\ t >= c[k].exp THEN Absent ELSE c[k]

\* mutant: the key is set only when it is not there (nx)
RedisSet_nx(c, t, k, o, ttl) ==
    IF c[k].kind = "absent"
    THEN [c EXCEPT ![k] = Json(o, IF ttl = NoExpiry THEN NoExpiry ELSE t + ttl)]
    ELSE c

\* redis.set(key, value, ex=ttl); ttl = NoExpiry: no ex argument
RedisSet(c, t, k, o, ttl) ==
    [c EXCEPT ![k] = Json(o, IF ttl = NoExpiry THEN NoExpiry ELSE t + ttl)]

\* "if not data": None and the empty string are both falsy
Truthy(data) == data.kind # "absent"

----------------------------------------------------------------------------
(* Elasticsearch point get *)

\* elastic.get(index='movies', id=film_id): <<doc>>, or <<>> for NotFoundError
EsGet(ms, film_id) ==
    IF \E i \in DOMAIN ms : ms[i].id = film_id
    THEN <<ms[CHOOSE i \in DOMAIN ms : ms[i].id = film_id]>>
    ELSE <<>>

----------------------------------------------------------------------------
(* models/film.py and services/films.py *)

\* what a call returns: None, a value, or a raised exception
NoneResult == [kind |-> "none", val |-> <<>>, err |-> ""]
Found(v) == [kind |-> "found", val |-> <<v>>, err |-> ""]
Raised(e) == [kind |-> "raised", val |-> <<>>, err |-> e]

extract_names(items) == [i \in DOMAIN items |-> items[i].full_name]

TagNames(gs) == [i \in DOMAIN gs |-> gs[i].name]

\* Film(id=..., title=..., ...) built from doc['_source']
FilmFromSource(source) ==
    [id |-> source.id,
     title |-> source.title,
     imdb_rating |-> source.imdb_rating,
     genre |-> TagNames(source.genres),
     actors |-> extract_names(source.actors),
     writers |-> extract_names(source.writers),
     directors |-> extract_names(source.directors)]

\* film.json(): the field values in declaration order
FilmJson(film) ==
    <<film.id, film.title, film.imdb_rating, film.genre,
      film.actors, film.writers, film.directors>>

\* Film.parse_raw(data) of a well-formed payload
ParseRaw(o) ==
    [id |-> o[1], title |-> o[2], imdb_rating |-> o[3], genre |-> o[4],
     actors |-> o[5], writers |-> o[6], directors |-> o[7]]

\* mutant: the test on data inverted
film_from_cache_inverted(c, t, film_id, fault) ==
    IF fault = "redis_get" THEN Raised("redis_get")
    ELSE LET data == RedisGet(c, t, film_id) IN
         IF Truthy(data) THEN NoneResult ELSE Raised("parse_raw")

\* FilmService._film_from_cache
film_from_cache(c, t, film_id, fault) ==
    IF fault = "redis_get" THEN Raised("redis_get")
    ELSE LET data == RedisGet(c, t, film_id) IN
         IF ~Truthy(data) THEN NoneResult
         ELSE IF data.kind = "malformed" THEN Raised("parse_raw")
         ELSE Found(ParseRaw(data.obj))

\* mutant: NotFoundError not caught
get_film_from_elastic_noexcept(ms, film_id, fault) ==
    IF fault = "es_get" THEN Raised("es_get")
    ELSE LET doc == EsGet(ms, film_id) IN
         IF doc = <<>> THEN Raised("NotFoundError")
         ELSE Found(FilmFromSource(doc[1]))

\* FilmService._get_film_from_elastic
get_film_from_elastic(ms, film_id, fault) ==
    IF fault = "es_get" THEN Raised("es_get")
    ELSE LET doc == EsGet(ms, film_id) IN
         IF doc = <<>> THEN NoneResult
         ELSE Found(FilmFromSource(doc[1]))

\* mutant: set without ex
put_film_to_cache_noex(c, t, film, fault) ==
    IF fault = "redis_set"
    THEN [raised |-> TRUE, cache |-> c]
    ELSE [raised |-> FALSE,
          cache |-> RedisSet(c, t, film.id, FilmJson(film), NoExpiry)]

\* FilmService._put_film_to_cache: the cache after the call, or a raise
put_film_to_cache(c, t, film, fault) ==
    IF fault = "redis_set"
    THEN [raised |-> TRUE, cache |-> c]
    ELSE [raised |-> FALSE,
          cache |-> RedisSet(c, t, film.id, FilmJson(film),
                             FILM_CACHE_EXPIRE_IN_SECONDS)]

Out(r, c, h, n) ==
    [result |-> r, cache |-> c, hit |-> h, storeCalls |-> n]

\* FilmService.get_by_id
get_by_id(c, ms, t, film_id, fault) ==
    LET cached == film_from_cache(c, t, film_id, fault) IN
    IF cached.kind = "raised" THEN Out(cached, c, FALSE, 0)
    ELSE IF cached.kind = "found" THEN Out(cached, c, TRUE, 0)
    ELSE LET film == get_film_from_elastic(ms, film_id, fault) IN
         IF film.kind = "raised" THEN Out(film, c, FALSE, 1)
         ELSE IF film.kind = "none" THEN Out(NoneResult, c, FALSE, 1)
         ELSE LET put == put_film_to_cache(c, t, film.val[1], fault) IN
              IF put.raised THEN Out(Raised("redis_set"), c, FALSE, 1)
              ELSE Out(film, put.cache, FALSE, 1)

Faults == {"none", "redis_get", "es_get", "redis_set"}

\* nothing called yet
NoCall ==
    [op |-> "none", id |-> "", fault |-> "none", result |-> NoneResult,
     hit |-> FALSE, storeCalls |-> 0, wrote |-> {}, stored |-> Absent,
     before |-> "absent", source |-> <<>>, stale |-> FALSE]

----------------------------------------------------------------------------
(* Requests to the Entity Reader, the clock, and the loader *)

\* GET /api/v1/films/{film_id}: one whole get_by_id call; any one client call
\* of it may raise (fault)
FilmGet(film_id, fault) ==
    LET o == get_by_id(cache, movies, now, film_id, fault)
        w == {k \in CacheKeys : o.cache[k] # cache[k]}
    IN
    /\ cache' = o.cache
    /\ last' = [op |-> "get_by_id", id |-> film_id,
                fault |-> (IF fault = "redis_get"
                              \/ (o.result.kind = "raised" /\ o.result.err = fault)
                           THEN fault ELSE "none"),
                result |-> o.result, hit |-> o.hit,
                storeCalls |-> o.storeCalls,
                wrote |-> w, stored |-> o.cache[film_id],
                before |-> RedisGet(cache, now, film_id).kind,
                source |-> EsGet(movies, film_id),
                stale |-> (/\ writtenAt[film_id] >= 0
                           /\ now >= writtenAt[film_id]
                                       + FILM_CACHE_EXPIRE_IN_SECONDS)]
    /\ firstGet' = IF film_id \in w
                   THEN [firstGet EXCEPT ![film_id] = o.result]
                   ELSE firstGet
    /\ writtenAt' = IF film_id \in w
                    THEN [writtenAt EXCEPT ![film_id] = now]
                    ELSE writtenAt
    /\ UNCHANGED <<movies, indexExists, now, task, scrolls, scrollSize>>

\* time passes
Tick ==
    /\ now + TickStep <= MaxClock
    /\ now' = now + TickStep
    /\ UNCHANGED <<movies, indexExists, cache, last, firstGet, writtenAt,
                   task, scrolls, scrollSize>>

\* the loader indexes one document: {"_op_type": "index", "_id": ..., "_source": ...}
IndexDoc(ms, d) ==
    IF \E i \in DOMAIN ms : ms[i].id = d.id
    THEN [i \in DOMAIN ms |-> IF ms[i].id = d.id THEN d ELSE ms[i]]
    ELSE Append(ms, d)

LoadDoc(d) ==
    /\ indexExists
    /\ Len(IndexDoc(movies, d)) <= MaxDocs
    /\ IndexDoc(movies, d) # movies
    /\ movies' = IndexDoc(movies, d)
    /\ UNCHANGED <<indexExists, cache, now, last, firstGet, writtenAt,
                   task, scrolls, scrollSize>>

----------------------------------------------------------------------------
(* Python dicts (insertion-ordered) and their JSON text *)

DictHas(d, key) == \E i \in DOMAIN d : d[i].k = key

\* d[key] = value: a present key keeps its place, a new one goes last
DictSet(d, key, value) ==
    IF DictHas(d, key)
    THEN [i \in DOMAIN d |-> IF d[i].k = key THEN [k |-> key, v |-> value]
                                             ELSE d[i]]
    ELSE Append(d, [k |-> key, v |-> value])

\* json.dumps(dict): the members in order, each a <<name, value>> pair
Dumps(d) == [i \in DOMAIN d |-> <<d[i].k, d[i].v>>]

\* json.loads(text) of a JSON object
Loads(o) == [i \in DOMAIN o |-> [k |-> o[i][1], v |-> o[i][2]]]

----------------------------------------------------------------------------
(* services/cache_builder.py: build_cache_on_startup, the merge *)

\* mutant: the membership test dropped
InsertAlways(d, key, value) == DictSet(d, key, value)

\* if uuid not in cache: cache[uuid] = name
InsertIfNew(d, key, value) ==
    IF DictHas(d, key) THEN d ELSE DictSet(d, key, value)

RECURSIVE MergeTags(_, _)
\* for g in movie["_source"].get("genres", [])
MergeTags(gc, gs) ==
    IF gs = <<>> THEN gc
    ELSE MergeTags(InsertIfNew(gc, Head(gs).uuid, Head(gs).name), Tail(gs))

RECURSIVE MergeRefs(_, _)
\* for p in movie["_source"].get(role, [])
MergeRefs(pc, ps) ==
    IF ps = <<>> THEN pc
    ELSE MergeRefs(InsertIfNew(pc, Head(ps).uuid, Head(ps).full_name), Tail(ps))

\* mutant: one role left out of the list
MergeRoles_two(pc, movie) ==
    MergeRefs(MergeRefs(pc, movie.actors), movie.directors)

\* for role in ["actors", "directors", "writers"]
MergeRoles(pc, movie) ==
    MergeRefs(MergeRefs(MergeRefs(pc, movie.actors), movie.directors),
              movie.writers)

RECURSIVE MergeMovies(_, _)
\* the body of "async for movie in scroll_all_movies(...)" over one batch
MergeMovies(m, hits) ==
    IF hits = <<>> THEN m
    ELSE MergeMovies([genres |-> MergeTags(m.genres, Head(hits).genres),
                      persons |-> MergeRoles(m.persons, Head(hits))],
                     Tail(hits))

----------------------------------------------------------------------------
(* Elasticsearch scroll: a cursor reads the snapshot taken when it was opened *)

Take(q, n) == SubSeq(q, 1, IF Len(q) < n THEN Len(q) ELSE n)
Drop(q, n) == SubSeq(q, (IF Len(q) < n THEN Len(q) ELSE n) + 1, Len(q))

NoScroll == [open |-> FALSE, rest |-> <<>>, exhausted |-> FALSE,
             overrun |-> FALSE, opened |-> 0, cleared |-> 0]

\* elastic.search(index, scroll=..., body={match_all, size}): the context it opens
OpenScroll(ms, size) ==
    [open |-> TRUE, rest |-> Drop(ms, size), exhausted |-> (ms = <<>>),
     overrun |-> FALSE, opened |-> 1, cleared |-> 0]

\* elastic.scroll(scroll_id): the context after the call
AdvanceScroll(sc, size) ==
    [sc EXCEPT !.rest = Drop(sc.rest, size),
               !.exhausted = (sc.rest = <<>>),
               !.overrun = sc.overrun \/ sc.exhausted]

\* elastic.clear_scroll(scroll_id)
ClearScroll(sc) == [sc EXCEPT !.open = FALSE, !.cleared = sc.cleared + 1]

----------------------------------------------------------------------------
(* services/cache_builder.py: the builder task, one await per step *)

Builders == {1, 2}

\* the locals of build_cache_on_startup and of the generator it drains;
\* before, prevDone: the persisted indexes when the pass started, and whether
\* the pass before it completed
NewTask(n, prev, c) ==
    [pc |-> "start", pass |-> n, prevDone |-> prev,
     before |-> [genres |-> c["genres_cache"], persons |-> c["persons_cache"]],
     genres_cache_raw |-> Absent, persons_cache_raw |-> Absent,
     genres_cache |-> <<>>, persons_cache |-> <<>>,
     scroll_id |-> 0, hits |-> <<>>, snapshot |-> <<>>, yielded |-> <<>>,
     scrollCalls |-> 0, wrote |-> {}, err |-> ""]

\* an exception nothing catches ends the task
Fail(t, e) == [t EXCEPT !.pc = "failed", !.err = e]

\* mutant: the exception swallowed, the pass goes on to write
ScanError_swallowed(t, e) == [t EXCEPT !.pc = "write_genres", !.err = e]

\* an exception raised inside the generator reaches the "async for" and ends the task
ScanError(t, e) == Fail(t, e)

\* redis.get(key) or b"{}"
OrEmpty(data) == IF Truthy(data) THEN data ELSE Json(<<>>, NoExpiry)

\* mutant: the pass starts from empty dicts whatever it read
LoadSeeds_fresh(t) ==
    IF t.genres_cache_raw.kind = "malformed"
       \/ t.persons_cache_raw.kind = "malformed"
    THEN Fail(t, "json_loads")
    ELSE [t EXCEPT !.pc = "open"]

\* json.loads of both raws: the task with both dicts, or a JSONDecodeError
LoadSeeds(t) ==
    IF t.genres_cache_raw.kind = "malformed"
       \/ t.persons_cache_raw.kind = "malformed"
    THEN Fail(t, "json_loads")
    ELSE [t EXCEPT !.genres_cache = Loads(t.genres_cache_raw.obj),
                   !.persons_cache = Loads(t.persons_cache_raw.obj),
                   !.pc = "open"]

\* mutant: the loop runs while batches are full
ScanContinues_full(hits, size) == Len(hits) = size

\* while hits:
ScanContinues(hits, size) == hits # <<>>

\* line 38
ReadGenres(b, fault) ==
    /\ task[b].pc = "start"
    /\ task' = [task EXCEPT ![b] =
         IF fault THEN Fail(@, "redis_get")
         ELSE [@ EXCEPT !.genres_cache_raw =
                            OrEmpty(RedisGet(cache, now, "genres_cache")),
                        !.pc = "read_persons"]]
    /\ UNCHANGED <<movies, indexExists, cache, now, last, firstGet, writtenAt,
                   scrolls, scrollSize>>

\* lines 39-41
ReadPersons(b, fault) ==
    /\ task[b].pc = "read_persons"
    /\ task' = [task EXCEPT ![b] =
         IF fault THEN Fail(@, "redis_get")
         ELSE LoadSeeds([@ EXCEPT !.persons_cache_raw =
                            OrEmpty(RedisGet(cache, now, "persons_cache"))])]
    /\ UNCHANGED <<movies, indexExists, cache, now, last, firstGet, writtenAt,
                   scrolls, scrollSize>>

\* scroll_all_movies, lines 12-22: the opening search
ScanOpen(b, fault) ==
    /\ task[b].pc = "open"
    /\ IF fault
       THEN /\ task' = [task EXCEPT ![b] = ScanError(@, "es_search")]
            /\ UNCHANGED scrolls
       ELSE IF ~indexExists
       THEN \* NotFoundError: the generator returns, nothing is yielded
            /\ task' = [task EXCEPT ![b].pc = "write_genres"]
            /\ UNCHANGED scrolls
       ELSE /\ task' = [task EXCEPT ![b].scroll_id = b,
                                    ![b].hits = Take(movies, scrollSize),
                                    ![b].snapshot = movies,
                                    ![b].pc = "loop"]
            /\ scrolls' = [scrolls EXCEPT ![b] = OpenScroll(movies, scrollSize)]
    /\ UNCHANGED <<movies, indexExists, cache, now, last, firstGet, writtenAt,
                   scrollSize>>

\* lines 24-30 with lines 43-51: every hit of the batch is yielded and merged,
\* then the next batch is asked for
ScanAdvance(b, fault) ==
    /\ task[b].pc = "loop"
    /\ ScanContinues(task[b].hits, scrollSize)
    /\ LET t == task[b]
           m == MergeMovies([genres |-> t.genres_cache,
                             persons |-> t.persons_cache], t.hits)
           merged == [t EXCEPT !.genres_cache = m.genres,
                               !.persons_cache = m.persons,
                               !.yielded = t.yielded \o t.hits]
       IN IF fault
          THEN /\ task' = [task EXCEPT ![b] = ScanError(merged, "es_scroll")]
               /\ UNCHANGED scrolls
          ELSE /\ task' = [task EXCEPT ![b] =
                    [merged EXCEPT !.hits = Take(scrolls[b].rest, scrollSize),
                                   !.scrollCalls = t.scrollCalls + 1]]
               /\ scrolls' = [scrolls EXCEPT ![b] =
                                  AdvanceScroll(scrolls[b], scrollSize)]
    /\ UNCHANGED <<movies, indexExists, cache, now, last, firstGet, writtenAt,
                   scrollSize>>

\* lines 32-33: the loop is over, the cursor is cleared
ScanClose(b, fault) ==
    /\ task[b].pc = "loop"
    /\ ~ScanContinues(task[b].hits, scrollSize)
    /\ IF fault
       THEN /\ task' = [task EXCEPT ![b] = ScanError(@, "es_clear_scroll")]
            /\ UNCHANGED scrolls
       ELSE /\ task' = [task EXCEPT ![b].pc = "write_genres"]
            /\ scrolls' = [scrolls EXCEPT ![b] = ClearScroll(scrolls[b])]
    /\ UNCHANGED <<movies, indexExists, cache, now, last, firstGet, writtenAt,
                   scrollSize>>

\* line 53
WriteGenres(b, fault) ==
    /\ task[b].pc = "write_genres"
    /\ IF fault
       THEN /\ task' = [task EXCEPT ![b] = Fail(@, "redis_set")]
            /\ UNCHANGED cache
       ELSE /\ cache' = RedisSet(cache, now, "genres_cache",
                                 Dumps(task[b].genres_cache), NoExpiry)
            /\ task' = [task EXCEPT ![b].wrote = @ \cup {"genres_cache"},
                                    ![b].pc = "write_persons"]
    /\ UNCHANGED <<movies, indexExists, now, last, firstGet, writtenAt,
                   scrolls, scrollSize>>

\* line 54
WritePersons(b, fault) ==
    /\ task[b].pc = "write_persons"
    /\ IF fault
       THEN /\ task' = [task EXCEPT ![b] = Fail(@, "redis_set")]
            /\ UNCHANGED cache
       ELSE /\ cache' = RedisSet(cache, now, "persons_cache",
                                 Dumps(task[b].persons_cache), NoExpiry)
            /\ task' = [task EXCEPT ![b].wrote = @ \cup {"persons_cache"},
                                    ![b].pc = "done"]
    /\ UNCHANGED <<movies, indexExists, now, last, firstGet, writtenAt,
                   scrolls, scrollSize>>

\* the process starts again: lifespan creates the task anew
Restart(b) ==
    /\ task[b].pc \in {"done", "failed"}
    /\ task[b].pass < MaxPasses
    /\ task' = [task EXCEPT ![b] =
                    NewTask(task[b].pass + 1, task[b].pc = "done", cache)]
    /\ scrolls' = [scrolls EXCEPT ![b] = NoScroll]
    /\ UNCHANGED <<movies, indexExists, cache, now, last, firstGet, writtenAt,
                   scrollSize>>

----------------------------------------------------------------------------
(* Specifications *)

SortedIds(s) == \A i, j \in DOMAIN s : i < j => s[i].id \in {"f1", "f2"} /\ s[j].id \in {"f2", "f3"}

InitRest ==
    /\ now = 0
    /\ last = NoCall
    /\ firstGet = [i \in FilmIds |-> NoneResult]
    /\ writtenAt = [i \in FilmIds |-> -1]
    /\ task = [b \in Builders |-> NewTask(1, FALSE, cache)]
    /\ scrolls = [b \in Builders |-> NoScroll]

\* the films asked for and loaded while the Entity Reader is exercised
RequestIds == {"f1", "f2"}

FilmDocs == {d \in Docs : d.id \in RequestIds /\ d.title \in {"T1", "T2"}}

\* the Entity Reader: requests for films, the clock, the loader
InitFilm ==
    /\ movies \in {s \in Collections :
                     SortedIds(s) /\ \A i \in DOMAIN s : s[i] \in FilmDocs}
    /\ indexExists = TRUE
    /\ cache \in {c \in [CacheKeys -> {Absent, Malformed}] :
                    \A k \in CacheKeys \ RequestIds : c[k] = Absent}
    /\ scrollSize = 1
    /\ InitRest

NextFilm ==
    \/ \E film_id \in RequestIds, fault \in Faults : FilmGet(film_id, fault)
    \/ Tick
    \/ \E d \in FilmDocs : LoadDoc(d)

SpecFilm == InitFilm /\ [][NextFilm]_vars

\* what the index keys may hold when a build pass starts
GenreSeeds ==
    {Absent, Malformed,
     Json(<<<<"g1", "Tragedy">>, <<"g9", "Noir">>>>, NoExpiry)}

PersonSeeds ==
    {Absent, Malformed,
     Json(<<<<"p9", "Zed">>, <<"p1", "Alicia">>>>, NoExpiry)}

\* one builder task, restarted with the process
InitBuilder ==
    /\ indexExists \in BOOLEAN
    /\ movies \in {s \in Collections : SortedIds(s) /\ (~indexExists => s = <<>>)}
    /\ cache \in {c \in [CacheKeys -> {Absent} \cup GenreSeeds \cup PersonSeeds] :
                    /\ \A k \in FilmIds : c[k] = Absent
                    /\ c["genres_cache"] \in GenreSeeds
                    /\ c["persons_cache"] \in PersonSeeds}
    /\ scrollSize \in 1..MaxBatch
    /\ InitRest

BuilderStep(b) ==
    \E fault \in BOOLEAN :
        \/ ReadGenres(b, fault)
        \/ ReadPersons(b, fault)
        \/ ScanOpen(b, fault)
        \/ ScanAdvance(b, fault)
        \/ ScanClose(b, fault)
        \/ WriteGenres(b, fault)
        \/ WritePersons(b, fault)

NextBuilder == BuilderStep(1) \/ Restart(1)

SpecBuilder == InitBuilder /\ [][NextBuilder]_vars

\* one pass of the builder task over an empty cache: the scan on its own
InitScan ==
    /\ indexExists \in BOOLEAN
    /\ movies \in {s \in Collections : SortedIds(s) /\ (~indexExists => s = <<>>)}
    /\ cache = [k \in CacheKeys |-> Absent]
    /\ scrollSize \in 1..MaxBatch
    /\ InitRest

NextScan == BuilderStep(1)

SpecScan == InitScan /\ [][NextScan]_vars

\* the event loop runs a task that can run
FairScan == SpecScan /\ WF_vars(NextScan)

----------------------------------------------------------------------------
(* Claims about the Entity Reader, under SpecFilm *)

\* film f is document d with its three role lists (and its tags) flattened to names
Flattened(f, d) ==
    /\ f.id = d.id /\ f.title = d.title /\ f.imdb_rating = d.imdb_rating
    /\ Len(f.genre) = Len(d.genres)
    /\ \A i \in DOMAIN d.genres : f.genre[i] = d.genres[i].name
    /\ Len(f.actors) = Len(d.actors)
    /\ \A i \in DOMAIN d.actors : f.actors[i] = d.actors[i].full_name
    /\ Len(f.writers) = Len(d.writers)
    /\ \A i \in DOMAIN d.writers : f.writers[i] = d.writers[i].full_name
    /\ Len(f.directors) = Len(d.directors)
    /\ \A i \in DOMAIN d.directors : f.directors[i] = d.directors[i].full_name

\* C1: with both clients answering, a get of a stored id on a cold cache returns
\* the stored document flattened, after one store call, and leaves it in the
\* cache under the id and nowhere else; a get that finds an unexpired entry
\* returns the very value the filling get returned, calls the store not at all
\* and writes nothing.
C1_CacheAside ==
    last.op = "get_by_id" /\ last.fault = "none" =>
        /\ (last.before = "absent" /\ last.source # <<>>) =>
              /\ last.result.kind = "found"
              /\ Flattened(last.result.val[1], last.source[1])
              /\ ~last.hit /\ last.storeCalls = 1
              /\ last.wrote = {last.id}
              /\ last.stored.kind = "json"
              /\ ParseRaw(last.stored.obj) = last.result.val[1]
        /\ last.before = "json" =>
              /\ last.hit /\ last.storeCalls = 0 /\ last.wrote = {}
              /\ last.result = firstGet[last.id]

\* a hit served a value the store no longer holds
C1_Witness ==
    /\ last.op = "get_by_id" /\ last.hit /\ last.result.kind = "found"
    /\ last.source # <<>>
    /\ ~Flattened(last.result.val[1], last.source[1])

\* C2: with both clients answering, a get of an id that is neither stored nor
\* cached returns None, raises nothing and writes nothing to the cache.
C2_NotFound ==
    (/\ last.op = "get_by_id" /\ last.fault = "none"
     /\ last.before = "absent" /\ last.source = <<>>) =>
        /\ last.result = NoneResult
        /\ last.wrote = {}
        /\ last.storeCalls = 1

C2_Witness ==
    /\ last.op = "get_by_id" /\ last.fault = "none"
    /\ last.before = "absent" /\ last.source = <<>>
    /\ last.result.kind = "none"
    /\ \E k \in RequestIds : RedisGet(cache, now, k).kind = "json"

\* C3: an entry get_by_id wrote at time t cannot be read at any time >= t + 300,
\* and a get made then (both clients answering) goes to the store once and, when
\* the document is there, writes the cache again with a fresh expiry.
C3_TtlExpiry ==
    /\ \A k \in FilmIds :
          (writtenAt[k] >= 0 /\ now >= writtenAt[k] + 300) =>
              RedisGet(cache, now, k).kind = "absent"
    /\ (last.op = "get_by_id" /\ last.stale /\ last.fault = "none") =>
          /\ ~last.hit /\ last.storeCalls = 1
          /\ last.source # <<>> =>
                /\ last.wrote = {last.id}
                /\ last.stored.exp = writtenAt[last.id] + 300
                /\ writtenAt[last.id] >= 300

C3_Witness ==
    /\ last.op = "get_by_id" /\ last.stale /\ last.fault = "none"
    /\ last.source # <<>> /\ last.wrote = {last.id}
    /\ last.result.kind = "found"

\* C4: a get whose cache read fails is served from the store, not failed.
C4_CacheReadFailureIsMiss ==
    (last.op = "get_by_id" /\ last.fault = "redis_get") =>
        /\ last.result.kind # "raised"
        /\ last.storeCalls = 1
        /\ last.source # <<>> =>
              /\ last.result.kind = "found"
              /\ Flattened(last.result.val[1], last.source[1])

\* C5: a get whose cache write fails still returns what it fetched.
C5_CacheWriteBestEffort ==
    (last.op = "get_by_id" /\ last.fault = "redis_set") =>
        /\ last.result.kind = "found"
        /\ Flattened(last.result.val[1], last.source[1])

\* C6: an undecodable payload under a film key is treated as a miss by get_by_id,
\* and an undecodable payload under an index key does not end the build.
C6_MalformedIsMiss ==
    /\ (last.op = "get_by_id" /\ last.before = "malformed"
        /\ last.fault = "none") =>
           /\ last.result.kind # "raised"
           /\ last.storeCalls = 1
           /\ last.source # <<>> => last.wrote = {last.id}
    /\ \A b \in Builders : task[b].err # "json_loads"

----------------------------------------------------------------------------
(* Claims about the scanner and the builder, under SpecBuilder and FairScan *)

StoreErrors == {"es_search", "es_scroll", "es_clear_scroll"}

\* C7: once a store call of the scan has failed, the pass writes neither index
\* key: both hold what they held when the pass started.
C7_FailedScanWritesNothing ==
    \A b \in {1} :
        task[b].err \in StoreErrors =>
            /\ task[b].pc = "failed"
            /\ task[b].wrote = {}
            /\ cache["genres_cache"] = task[b].before.genres
            /\ cache["persons_cache"] = task[b].before.persons

\* a scroll failed with ids merged in memory that the cache does not hold
C7_Witness ==
    /\ task[1].err = "es_scroll"
    /\ task[1].persons_cache # <<>>
    /\ Dumps(task[1].persons_cache) # cache["persons_cache"].obj
    /\ Dumps(task[1].genres_cache) # cache["genres_cache"].obj

\* the scan of task b is over without an error of its own
ScanOver(b) ==
    \/ task[b].pc \in {"write_genres", "write_persons", "done"}
    \/ task[b].pc = "failed" /\ task[b].err = "redis_set"

IsPrefix(p, q) == Len(p) <= Len(q) /\ SubSeq(q, 1, Len(p)) = p

\* C8, safety: the documents yielded so far are the first ones of the collection,
\* each once and in order; when the scan is over they are all of it; the scroll
\* is never called on a cursor that has already answered with an empty batch.
C8_ScanSafe ==
    \A b \in {1} :
        /\ IsPrefix(task[b].yielded, movies)
        /\ ScanOver(b) => task[b].yielded = movies
        /\ ~scrolls[b].overrun
        /\ task[b].scrollCalls <= Len(movies)

\* C8: the above, and a scan that is opened ends (with the fairness of FairScan)
C8_ScanCompleteAndTerminates ==
    /\ []C8_ScanSafe
    /\ (task[1].pc = "open") ~> (task[1].pc \notin {"open", "loop"})

\* a scan of two documents in two batches, over
C8_Witness ==
    /\ ScanOver(1) /\ Len(task[1].yielded) = 2 /\ task[1].scrollCalls = 2
    /\ task[1].yielded[1] # task[1].yielded[2]

TagIdsOf(ms) ==
    UNION { {ms[i].genres[j].uuid : j \in DOMAIN ms[i].genres} : i \in DOMAIN ms }

RefIdsOf(ms) ==
    UNION { {ms[i].actors[j].uuid : j \in DOMAIN ms[i].actors}
            \cup {ms[i].directors[j].uuid : j \in DOMAIN ms[i].directors}
            \cup {ms[i].writers[j].uuid : j \in DOMAIN ms[i].writers}
          : i \in DOMAIN ms }

\* the member names of a JSON object
JsonKeys(o) == {o[i][1] : i \in DOMAIN o}

\* C9: a pass that started with both index keys absent and completed has persisted
\* a tag mapping whose keys are exactly the tag ids of the documents and a person
\* mapping whose keys are exactly the ids found under any of the three roles.
C9_EmptySeedKeySets ==
    \A b \in {1} :
        (/\ task[b].pc = "done"
         /\ task[b].before.genres = Absent
         /\ task[b].before.persons = Absent) =>
            /\ cache["genres_cache"].kind = "json"
            /\ cache["persons_cache"].kind = "json"
            /\ JsonKeys(cache["genres_cache"].obj) = TagIdsOf(movies)
            /\ JsonKeys(cache["persons_cache"].obj) = RefIdsOf(movies)

C9_Witness ==
    /\ task[1].pc = "done"
    /\ task[1].before.genres = Absent /\ task[1].before.persons = Absent
    /\ Cardinality(JsonKeys(cache["persons_cache"].obj)) = 3
    /\ Cardinality(JsonKeys(cache["genres_cache"].obj)) = 2

\* the value of member n of a JSON object
JsonValue(o, n) == o[CHOOSE i \in DOMAIN o : o[i][1] = n][2]

\* entry e's members are all members of entry f, with the same values
JsonSubset(e, f) ==
    e.kind = "json" =>
        /\ f.kind = "json"
        /\ \A i \in DOMAIN e.obj :
              /\ e.obj[i][1] \in JsonKeys(f.obj)
              /\ JsonValue(f.obj, e.obj[i][1]) = e.obj[i][2]

\* C10: a completed pass has persisted every key of the seed it read, under the
\* seed's name; and when the pass before it completed too, it has persisted
\* exactly what that pass had persisted.
C10_MergesAndIdempotent ==
    \A b \in {1} :
        task[b].pc = "done" =>
            /\ JsonSubset(task[b].before.genres, cache["genres_cache"])
            /\ JsonSubset(task[b].before.persons, cache["persons_cache"])
            /\ task[b].prevDone =>
                  /\ cache["genres_cache"] = task[b].before.genres
                  /\ cache["persons_cache"] = task[b].before.persons

\* a second pass completed after a first that merged new ids into a seed
C10_Witness ==
    /\ task[1].pc = "done" /\ task[1].pass = 2 /\ task[1].prevDone
    /\ "p9" \in JsonKeys(cache["persons_cache"].obj)
    /\ "p2" \in JsonKeys(cache["persons_cache"].obj)
    /\ JsonValue(cache["persons_cache"].obj, "p1") = "Alicia"
    /\ "g2" \in JsonKeys(cache["genres_cache"].obj)

----------------------------------------------------------------------------
(* models/person.py and services/persons.py: what the three readers share *)

CACHE_TTL == 300

\* UUID(text) of a canonical text, and str() of it
UUID(text) == [hex |-> text]
Str(u) == u.hex

\* Person(uuid=..., full_name=..., role=...); role is Optional, None is <<>>
Person(u, n, r) == [uuid |-> UUID(u), full_name |-> n, role |-> r]

\* for role in ["actors", "directors", "writers"]
Roles == <<"actors", "directors", "writers">>

\* doc["_source"].get(role, [])
RoleList(src, role) ==
    CASE role = "actors" -> src.actors
      [] role = "directors" -> src.directors
      [] role = "writers" -> src.writers

\* role[:-1]
RoleLabel(role) ==
    CASE role = "actors" -> "actor"
      [] role = "directors" -> "director"
      [] role = "writers" -> "writer"

\* the value of member name of a JSON object
Member(o, name) == o[CHOOSE i \in DOMAIN o : o[i][1] = name][2]

----------------------------------------------------------------------------
(* services/persons.py: PersonService.search_persons *)

SEARCH_SIZE == 50

\* the terms the analyzer of the name field makes of a text
Tokens(text) ==
    CASE text = "Alice" -> <<"alice">>
      [] text = "Alice Smith" -> <<"alice", "smith">>
      [] text = "Smith" -> <<"smith">>
      [] text = "Alicia" -> <<"alicia">>
      [] text = "Bob" -> <<"bob">>
      [] OTHER -> <<text>>

\* match_phrase: the terms of the query occur in the field, adjacent and in order
PhraseMatch(field, query_str) ==
    LET f == Tokens(field)
        q == Tokens(query_str)
    IN \E i \in 1..(Len(f) - Len(q) + 1) : SubSeq(f, i, i + Len(q) - 1) = q

\* "_source": [role]: the hit carries the queried role's list and no other
Project(d, role) ==
    [id |-> d.id,
     actors |-> IF role = "actors" THEN d.actors ELSE <<>>,
     directors |-> IF role = "directors" THEN d.directors ELSE <<>>,
     writers |-> IF role = "writers" THEN d.writers ELSE <<>>]

Reverse(q) == [i \in DOMAIN q |-> q[Len(q) + 1 - i]]

\* elastic.search(index="movies", body=query_exact): the documents with a
\* person under role whose name phrase-matches, at most "size" of them, in
\* the order the store scores them (order: one of the orders it may choose)
RoleHits(ms, role, query_str, order) ==
    LET matching ==
            SelectSeq(ms, LAMBDA d :
                \E j \in DOMAIN RoleList(d, role) :
                    PhraseMatch(RoleList(d, role)[j].full_name, query_str))
        scored == IF order = "rev" THEN Reverse(matching) ELSE matching
    IN [i \in DOMAIN Take(scored, SEARCH_SIZE) |->
            Project(Take(scored, SEARCH_SIZE)[i], role)]

\* mutant: the phrase match taken for the acceptance test
ExactMatch_phrase(p, query_str) == PhraseMatch(p.full_name, query_str)

\* p["full_name"] == query_str
ExactMatch(p, query_str) == p.full_name = query_str

\* mutant: the membership test dropped
NotSeen_always(seen_uuids, p) == TRUE

\* p["uuid"] not in seen_uuids
NotSeen(seen_uuids, p) == p.uuid \notin seen_uuids

RECURSIVE CollectRefs(_, _, _, _)
\* for p in src.get(role, []): accept, mark seen, append
CollectRefs(acc, ps, role, query_str) ==
    IF ps = <<>> THEN acc
    ELSE LET p == Head(ps) IN
         CollectRefs(
             IF NotSeen(acc.seen_uuids, p) /\ ExactMatch(p, query_str)
             THEN [seen_uuids |-> acc.seen_uuids \cup {p.uuid},
                   result |-> Append(acc.result,
                                     Person(p.uuid, p.full_name,
                                            <<RoleLabel(role)>>))]
             ELSE acc,
             Tail(ps), role, query_str)

\* for role in roles, over one hit
CollectRoles(acc, src, query_str) ==
    CollectRefs(
        CollectRefs(
            CollectRefs(acc, RoleList(src, Roles[1]), Roles[1], query_str),
            RoleList(src, Roles[2]), Roles[2], query_str),
        RoleList(src, Roles[3]), Roles[3], query_str)

RECURSIVE CollectHits(_, _, _)
\* for doc in hits
CollectHits(acc, hits, query_str) ==
    IF hits = <<>> THEN acc
    ELSE CollectHits(CollectRoles(acc, Head(hits), query_str),
                     Tail(hits), query_str)

\* json.dumps([{"uuid": str(p.uuid), "full_name": ..., "role": ...} for p in result])
SearchDumps(result) ==
    [i \in DOMAIN result |->
        << <<"uuid", Str(result[i].uuid)>>,
           <<"full_name", result[i].full_name>>,
           <<"role", result[i].role>> >>]

\* [Person(uuid=UUID(p["uuid"]), full_name=p["full_name"], role=p["role"]) ...]
SearchLoads(persons_dicts) ==
    [i \in DOMAIN persons_dicts |->
        Person(Member(persons_dicts[i], "uuid"),
               Member(persons_dicts[i], "full_name"),
               Member(persons_dicts[i], "role"))]

\* f"search_persons:{query_str}"
SearchKey(query_str) == "search_persons:" \o query_str

SearchOut(r, c, h, hs) == [result |-> r, cache |-> c, hit |-> h, hits |-> hs]

\* PersonService.search_persons; the three searches raise or answer together
search_persons(c, ms, t, query_str, order, fault) ==
    LET cache_key == SearchKey(query_str) IN
    IF fault = "redis_get" THEN SearchOut(Raised("redis_get"), c, FALSE, <<>>)
    ELSE LET cached == RedisGet(c, t, cache_key) IN
    IF Truthy(cached)
    THEN IF cached.kind = "malformed"
         THEN SearchOut(Raised("json_loads"), c, FALSE, <<>>)
         ELSE SearchOut(Found(SearchLoads(cached.obj)), c, TRUE, <<>>)
    ELSE IF fault = "es_search"
    THEN SearchOut(Raised("es_search"), c, FALSE, <<>>)
    ELSE LET hits == RoleHits(ms, Roles[1], query_str, order)
                     \o RoleHits(ms, Roles[2], query_str, order)
                     \o RoleHits(ms, Roles[3], query_str, order)
             result == CollectHits([seen_uuids |-> {}, result |-> <<>>],
                                   hits, query_str).result
         IN IF fault = "redis_set"
            THEN SearchOut(Raised("redis_set"), c, FALSE, hits)
            ELSE SearchOut(Found(result),
                           RedisSet(c, t, cache_key, SearchDumps(result),
                                    CACHE_TTL),
                           FALSE, hits)

PersonFaults == {"none", "redis_get", "es_search", "redis_set"}

Queries == {"Alice", "Alice Smith", "Bob"}

SearchKeys == {SearchKey(q) : q \in Queries}

\* GET persons/search?query=...: one whole search_persons call
Search(query_str, order, fault) ==
    \E o \in {search_persons(cache, movies, now, query_str, order, fault)} :
    /\ cache' = o.cache
    /\ last' = [op |-> "search_persons", q |-> query_str,
                fault |-> (IF o.result.kind = "raised" /\ o.result.err = fault
                           THEN fault ELSE "none"),
                result |-> o.result, hit |-> o.hit, hits |-> o.hits,
                wrote |-> {k \in DOMAIN cache : o.cache[k] # cache[k]},
                stored |-> o.cache[SearchKey(query_str)],
                before |-> RedisGet(cache, now, SearchKey(query_str)).kind,
                source |-> movies]
    /\ UNCHANGED <<movies, indexExists, now, firstGet, writtenAt, task,
                   scrolls, scrollSize>>

\* the documents the person readers are exercised on
PersonDocs == {d \in Docs : d.id \in RequestIds /\ d.title # "T4"}

PersonCollections ==
    {s \in Collections : SortedIds(s) /\ \A i \in DOMAIN s : s[i] \in PersonDocs}

InitSearch ==
    /\ movies \in PersonCollections
    /\ indexExists = TRUE
    /\ cache \in {c \in [SearchKeys \cup IndexKeys -> {Absent, Malformed}] :
                    \A k \in IndexKeys : c[k] = Absent}
    /\ scrollSize = 1
    /\ InitRest

NextSearch ==
    \E query_str \in Queries, order \in {"fwd", "rev"}, fault \in PersonFaults :
        Search(query_str, order, fault)

SpecSearch == InitSearch /\ [][NextSearch]_vars

----------------------------------------------------------------------------
(* Claims about search_persons, under SpecSearch *)

\* the references a document or hit holds, in role order, each with its label
OccOf(h) ==
    [j \in DOMAIN h.actors |->
        [uuid |-> h.actors[j].uuid, full_name |-> h.actors[j].full_name,
         role |-> "actor"]]
    \o [j \in DOMAIN h.directors |->
        [uuid |-> h.directors[j].uuid, full_name |-> h.directors[j].full_name,
         role |-> "director"]]
    \o [j \in DOMAIN h.writers |->
        [uuid |-> h.writers[j].uuid, full_name |-> h.writers[j].full_name,
         role |-> "writer"]]

RECURSIVE Occurrences(_)
\* the references of a sequence of documents or hits, in scan order
Occurrences(hs) ==
    IF hs = <<>> THEN <<>> ELSE OccOf(Head(hs)) \o Occurrences(Tail(hs))

\* C11: a search that missed the cache returns only persons whose stored name
\* equals the query: every returned person carries the query as its name and is
\* stored under that very name in a document the store returned; a person whose
\* name only contains the query as a phrase is not returned.
C11_SearchExact ==
    (last.op = "search_persons" /\ last.result.kind = "found" /\ ~last.hit) =>
        LET occ == Occurrences(last.source)
            cand == Occurrences(last.hits)
        IN \A i \in DOMAIN last.result.val[1] :
              LET p == last.result.val[1][i] IN
              /\ p.full_name = last.q
              /\ \E j \in DOMAIN occ :
                    occ[j].uuid = Str(p.uuid) /\ occ[j].full_name = last.q
              /\ \E j \in DOMAIN cand :
                    cand[j].uuid = Str(p.uuid) /\ cand[j].full_name = last.q

\* "Alice" was searched; the store returned a document for its "Alice Smith",
\* and only the exact match came back
C11_Witness ==
    /\ last.op = "search_persons" /\ last.q = "Alice" /\ ~last.hit
    /\ last.result.kind = "found" /\ last.result.val[1] # <<>>
    /\ \E j \in DOMAIN Occurrences(last.hits) :
          /\ Occurrences(last.hits)[j].full_name = "Alice Smith"
          /\ \A i \in DOMAIN last.result.val[1] :
                Str(last.result.val[1][i].uuid) # Occurrences(last.hits)[j].uuid

\* no id twice in a sequence of persons
UniqueIds(ps) == \A i, j \in DOMAIN ps : i # j => ps[i].uuid # ps[j].uuid

\* C12: a search result holds each person id at most once, whether computed or
\* served from the cache, and so does every value stored under a search key; in
\* a computed result the role of a person is the role of its first exact match
\* among the hits, in the order hits, roles, list.
C12_SearchDedup ==
    /\ (last.op = "search_persons" /\ last.result.kind = "found") =>
          UniqueIds(last.result.val[1])
    /\ \A k \in SearchKeys :
          cache[k].kind = "json" => UniqueIds(SearchLoads(cache[k].obj))
    /\ (last.op = "search_persons" /\ last.result.kind = "found" /\ ~last.hit) =>
          LET cand == Occurrences(last.hits)
              Exact(j, u) == cand[j].uuid = u /\ cand[j].full_name = last.q
          IN \A i \in DOMAIN last.result.val[1] :
                LET p == last.result.val[1][i] IN
                \E j \in DOMAIN cand :
                    /\ Exact(j, Str(p.uuid))
                    /\ \A h \in 1..(j - 1) : ~Exact(h, Str(p.uuid))
                    /\ p.role = <<cand[j].role>>

\* one person matched under two roles and in two documents, returned once with
\* the role of the first match; then the same list served from the cache
C12_Witness ==
    /\ last.op = "search_persons" /\ last.hit /\ last.result.kind = "found"
    /\ Len(last.result.val[1]) = 2
    /\ LET occ == Occurrences(last.source) IN
       \E i, j, h \in DOMAIN occ :
          /\ i < j /\ j < h
          /\ occ[i].uuid = occ[j].uuid /\ occ[j].uuid = occ[h].uuid
          /\ occ[i].full_name = last.q /\ occ[j].full_name = last.q
          /\ occ[h].full_name = last.q
          /\ occ[i].role # occ[j].role
          /\ \E n \in DOMAIN last.result.val[1] :
                /\ Str(last.result.val[1][n].uuid) = occ[i].uuid
                /\ last.result.val[1][n].role = <<occ[i].role>>

----------------------------------------------------------------------------
(* services/persons.py: PersonService.list_persons *)

MaxPage == 2        \* pages asked for

\* mutant: the end of the slice taken with the slice
PySlice_inclusive(q, start, end) ==
    LET Norm(i) == IF i < 0
                   THEN (IF i + Len(q) < 0 THEN 0 ELSE i + Len(q))
                   ELSE (IF i > Len(q) THEN Len(q) ELSE i)
    IN SubSeq(q, Norm(start) + 1, Norm(end + 1))

\* list[start:end] of Python: a negative index counts from the end, and both
\* are clipped to the list
PySlice(q, start, end) ==
    LET Norm(i) == IF i < 0
                   THEN (IF i + Len(q) < 0 THEN 0 ELSE i + Len(q))
                   ELSE (IF i > Len(q) THEN Len(q) ELSE i)
    IN SubSeq(q, Norm(start) + 1, Norm(end))

\* mutant: the page number taken for the offset
PageSlice_frompage(persons_dict, page, size) ==
    PySlice(persons_dict, page * size, page * size + size)

\* start = (page - 1) * size; end = start + size; dict(list(items)[start:end])
PageSlice(persons_dict, page, size) ==
    PySlice(persons_dict, (page - 1) * size, (page - 1) * size + size)

\* mutant: a key already present keeps its name
Assign_first(d, key, value) == InsertIfNew(d, key, value)

\* persons_dict[p["uuid"]] = p["full_name"]
Assign(d, key, value) == DictSet(d, key, value)

RECURSIVE AccumulateRefs(_, _)
\* for p in doc["_source"].get(role, [])
AccumulateRefs(d, ps) ==
    IF ps = <<>> THEN d
    ELSE AccumulateRefs(Assign(d, Head(ps).uuid, Head(ps).full_name), Tail(ps))

RECURSIVE AccumulateHits(_, _)
\* for doc in hits: for role in ["actors", "directors", "writers"]
AccumulateHits(d, hits) ==
    IF hits = <<>> THEN d
    ELSE AccumulateHits(
             AccumulateRefs(
                 AccumulateRefs(
                     AccumulateRefs(d, RoleList(Head(hits), Roles[1])),
                     RoleList(Head(hits), Roles[2])),
                 RoleList(Head(hits), Roles[3])),
             Tail(hits))

RECURSIVE DrainScroll(_, _, _)
\* while hits: merge the batch, scroll; stops at the first empty batch, or at a
\* scroll that raises (fault)
DrainScroll(st, size, fault) ==
    IF st.hits = <<>> THEN st
    ELSE LET merged == [st EXCEPT
                 !.persons_dict = AccumulateHits(st.persons_dict, st.hits),
                 !.scanned = st.scanned \o st.hits]
         IN IF fault = "es_scroll"
            THEN [merged EXCEPT !.raised = TRUE]
            ELSE DrainScroll(
                     [merged EXCEPT
                         !.hits = Take(st.scroll.rest, size),
                         !.scroll = AdvanceScroll(st.scroll, size),
                         !.scrollCalls = st.scrollCalls + 1],
                     size, fault)

\* [Person(uuid=uid, full_name=name) for uid, name in persons_dict.items()]
ListPersons(persons_dict) ==
    [i \in DOMAIN persons_dict |->
        Person(persons_dict[i].k, persons_dict[i].v, <<>>)]

\* f"persons:page={page}:size={size}"
ListKey(page, size) ==
    "persons:page=" \o ToString(page) \o ":size=" \o ToString(size)

ListOut(r, c, h, st) ==
    [result |-> r, cache |-> c, hit |-> h, acc |-> st.persons_dict,
     scanned |-> st.scanned, scroll |-> st.scroll,
     scrollCalls |-> st.scrollCalls]

NoScan ==
    [persons_dict |-> <<>>, hits |-> <<>>, scroll |-> NoScroll,
     scanned |-> <<>>, scrollCalls |-> 0, raised |-> FALSE]

\* PersonService.list_persons; batch: scroll_size, scaled
list_persons(c, ms, exists, t, size, page, batch, fault) ==
    LET cache_key == ListKey(page, size) IN
    IF fault = "redis_get" THEN ListOut(Raised("redis_get"), c, FALSE, NoScan)
    ELSE LET cached == RedisGet(c, t, cache_key) IN
    IF Truthy(cached)
    THEN IF cached.kind = "malformed"
         THEN ListOut(Raised("json_loads"), c, FALSE, NoScan)
         ELSE ListOut(Found(ListPersons(Loads(cached.obj))), c, TRUE, NoScan)
    ELSE IF fault = "es_search"
    THEN ListOut(Raised("es_search"), c, FALSE, NoScan)
    ELSE IF ~exists
    THEN ListOut(Raised("NotFoundError"), c, FALSE, NoScan)
    ELSE LET st == DrainScroll([NoScan EXCEPT !.hits = Take(ms, batch),
                                              !.scroll = OpenScroll(ms, batch)],
                               batch, fault)
             limited_persons == PageSlice(st.persons_dict, page, size)
         IN IF st.raised THEN ListOut(Raised("es_scroll"), c, FALSE, st)
            ELSE IF fault = "redis_set"
            THEN ListOut(Raised("redis_set"), c, FALSE, st)
            ELSE ListOut(Found(ListPersons(limited_persons)),
                         RedisSet(c, t, cache_key, Dumps(limited_persons),
                                  CACHE_TTL),
                         FALSE, st)

ListFaults == {"none", "redis_get", "es_search", "es_scroll", "redis_set"}

Pages == 1..MaxPage
Sizes == {1, 2}

ListKeys == {ListKey(page, size) : page \in Pages, size \in Sizes}

\* GET persons?page=..&size=..: one whole list_persons call
ListPage(page, size, fault) ==
    \E o \in {list_persons(cache, movies, indexExists, now, size, page,
                            scrollSize, fault)} :
    /\ cache' = o.cache
    /\ last' = [op |-> "list_persons", page |-> page, size |-> size,
                fault |-> (IF o.result.kind = "raised" /\ o.result.err = fault
                           THEN fault ELSE "none"),
                result |-> o.result, hit |-> o.hit, acc |-> o.acc,
                scanned |-> o.scanned, scroll |-> o.scroll,
                scrollCalls |-> o.scrollCalls,
                wrote |-> {k \in DOMAIN cache : o.cache[k] # cache[k]},
                stored |-> o.cache[ListKey(page, size)],
                before |-> RedisGet(cache, now, ListKey(page, size)).kind,
                source |-> movies]
    /\ UNCHANGED <<movies, indexExists, now, firstGet, writtenAt, task,
                   scrolls, scrollSize>>

InitList ==
    /\ indexExists \in BOOLEAN
    /\ movies \in {s \in PersonCollections : ~indexExists => s = <<>>}
    /\ cache \in {c \in [ListKeys \cup IndexKeys -> {Absent, Malformed}] :
                    \A k \in DOMAIN c : k # ListKey(1, 1) => c[k] = Absent}
    /\ scrollSize \in 1..MaxBatch
    /\ InitRest

NextList ==
    \E page \in Pages, size \in Sizes, fault \in ListFaults :
        ListPage(page, size, fault)

SpecList == InitList /\ [][NextList]_vars

----------------------------------------------------------------------------
(* Claims about list_persons, under SpecList *)

\* a list_persons call that missed the cache and in which no client call raised
ListMiss ==
    /\ last.op = "list_persons" /\ ~last.hit /\ last.fault = "none"
    /\ last.before = "absent"

\* C13: a list_persons call that misses the cache on an existing index scans
\* the whole collection, and returns the entries of the accumulated mapping at
\* positions (page-1)*size+1 .. (page-1)*size+size, those that exist, in
\* order; on an empty collection it returns the empty list.
C13_PageSlice ==
    (ListMiss /\ indexExists) =>
        LET start == (last.page - 1) * last.size
            n == IF Len(last.acc) <= start THEN 0
                 ELSE IF Len(last.acc) - start < last.size
                      THEN Len(last.acc) - start ELSE last.size
        IN /\ last.result.kind = "found"
           /\ last.scanned = last.source
           /\ {last.acc[i].k : i \in DOMAIN last.acc} = RefIdsOf(last.source)
           /\ Len(last.result.val[1]) = n
           /\ \A i \in 1..n :
                 /\ Str(last.result.val[1][i].uuid) = last.acc[start + i].k
                 /\ last.result.val[1][i].full_name = last.acc[start + i].v
           /\ last.source = <<>> => last.result.val[1] = <<>>

\* page 2 of size 2 over three persons: the third alone
C13_Witness ==
    /\ ListMiss /\ last.page = 2 /\ last.size = 2
    /\ Len(last.acc) = 3
    /\ last.result.kind = "found"
    /\ Len(last.result.val[1]) = 1
    /\ Str(last.result.val[1][1].uuid) = last.acc[3].k

----------------------------------------------------------------------------
(* services/films.py: FilmService.list_films *)

\* a sort parameter, as its characters: the dashes one by one, then the name
SortSpecs ==
    { <<"imdb_rating">>, <<"-", "imdb_rating">>, <<"title">>, <<"-", "title">>,
      <<"-", "-", "title">> }

RECURSIVE Lstrip(_)
\* sort.lstrip('-'): every leading dash goes
Lstrip(sort) ==
    IF sort # <<>> /\ Head(sort) = "-" THEN Lstrip(Tail(sort)) ELSE sort

\* mutant: the direction read the other way round
SortOrder_inverted(sort) ==
    IF sort # <<>> /\ Head(sort) = "-" THEN "asc" ELSE "desc"

\* 'desc' if sort.startswith('-') else 'asc'
SortOrder(sort) ==
    IF sort # <<>> /\ Head(sort) = "-" THEN "desc" ELSE "asc"

\* the place of a title in the order of the keyword values
TitleRank(title) ==
    CASE title = "T1" -> 1 [] title = "T2" -> 2
      [] title = "T3" -> 3 [] title = "T4" -> 4

\* the sort value of a document: <<>> when it has none
SortKey(d, field) ==
    CASE field = <<"imdb_rating">> -> d.imdb_rating
      [] field = <<"title">> -> <<TitleRank(d.title)>>
      [] OTHER -> <<>>

\* the store's order: by sort value in the direction asked, documents without
\* a value last, equal values in any order
InOrder(s, field, order) ==
    \A i, j \in DOMAIN s :
        i < j =>
            \/ SortKey(s[j], field) = <<>>
            \/ /\ SortKey(s[i], field) # <<>>
               /\ IF order = "desc"
                  THEN SortKey(s[i], field)[1] >= SortKey(s[j], field)[1]
                  ELSE SortKey(s[i], field)[1] <= SortKey(s[j], field)[1]

\* "_source": ["id", "title", "imdb_rating"]
Summary(d) == [id |-> d.id, title |-> d.title, imdb_rating |-> d.imdb_rating]

\* elastic.search(index='movies', body={sort, size, _source}): the answers the
\* store may give, one per order it may put equal values in
EsSearchSorted(ms, field, order, size) ==
    { [i \in DOMAIN Take(s, size) |-> Summary(s[i])] :
        s \in { [i \in DOMAIN ms |-> ms[p[i]]] :
                  p \in { q \in [DOMAIN ms -> DOMAIN ms] :
                            \A i, j \in DOMAIN ms : i # j => q[i] # q[j] } }
              \cap { t \in [DOMAIN ms -> Docs] : InOrder(t, field, order) } }

\* FilmShort(id=str(source['id']), title=source['title'],
\*           imdb_rating=source.get('imdb_rating'))
FilmShort(source) ==
    [id |-> UUID(source.id), title |-> source.title,
     imdb_rating |-> source.imdb_rating]

\* FilmService.list_films, given the store's answer to its one query
list_films(hits, exists, fault) ==
    IF fault THEN [result |-> Raised("es_search"), storeCalls |-> 1,
                   cacheCalls |-> 0]
    ELSE IF ~exists THEN [result |-> Raised("NotFoundError"), storeCalls |-> 1,
                          cacheCalls |-> 0]
    ELSE [result |-> Found([i \in DOMAIN hits |-> FilmShort(hits[i])]),
          storeCalls |-> 1, cacheCalls |-> 0]

FilmSizes == {1, 2, 3}

\* GET /api/v1/films/?page_size=..&sort=..: one whole list_films call
FilmList(size, sort, fault) ==
    \E hits \in EsSearchSorted(movies, Lstrip(sort), SortOrder(sort), size) :
    \E o \in {list_films(hits, indexExists, fault)} :
        /\ last' = [op |-> "list_films", size |-> size, sort |-> sort,
                    fault |-> (IF fault THEN "es_search" ELSE "none"),
                    result |-> o.result,
                    hits |-> IF fault \/ ~indexExists THEN <<>> ELSE hits,
                    storeCalls |-> o.storeCalls, cacheCalls |-> o.cacheCalls,
                    source |-> movies]
        /\ UNCHANGED <<movies, indexExists, cache, now, firstGet, writtenAt,
                       task, scrolls, scrollSize>>

\* the Listing Reader: requests for lists, over any collection
InitListing ==
    /\ indexExists \in BOOLEAN
    /\ movies \in {s \in Collections : SortedIds(s) /\ (~indexExists => s = <<>>)}
    /\ cache \in {c \in [CacheKeys -> {Absent, Malformed}] :
                    \A k \in CacheKeys \ {"f1"} : c[k] = Absent}
    /\ scrollSize = 1
    /\ InitRest

NextListing ==
    \E size \in FilmSizes, sort \in SortSpecs, fault \in BOOLEAN :
        FilmList(size, sort, fault)

SpecListing == InitListing /\ [][NextListing]_vars

----------------------------------------------------------------------------
(* Claims about list_films, under SpecListing *)

\* C14: a list_films call that the store answers returns at most size
\* summaries, one per document the store returned and in that order; for a
\* sort of the form field or -field, any two of them that both have the field
\* are in descending order of it when the sort starts with a dash and in
\* ascending order otherwise; the call makes one store call and no cache call.
C14_ListSorted ==
    (last.op = "list_films" /\ last.result.kind = "found") =>
        LET res == last.result.val[1]
            field == last.sort[Len(last.sort)]
            Val(f) == IF field = "title" THEN <<TitleRank(f.title)>>
                      ELSE f.imdb_rating
        IN /\ Len(res) <= last.size
           /\ Len(res) = Len(last.hits)
           /\ \A i \in DOMAIN res :
                 /\ Str(res[i].id) = last.hits[i].id
                 /\ res[i].title = last.hits[i].title
                 /\ res[i].imdb_rating = last.hits[i].imdb_rating
                 /\ \E n \in DOMAIN last.source :
                       Summary(last.source[n]) = last.hits[i]
           /\ Len(last.sort) <= 2 =>
                 \A i, j \in DOMAIN res :
                    (i < j /\ Val(res[i]) # <<>> /\ Val(res[j]) # <<>>) =>
                        IF last.sort[1] = "-"
                        THEN Val(res[i])[1] >= Val(res[j])[1]
                        ELSE Val(res[i])[1] <= Val(res[j])[1]
           /\ last.storeCalls = 1 /\ last.cacheCalls = 0

\* two films with different ratings listed by "-imdb_rating": the higher first,
\* though it is stored second
C14_Witness ==
    /\ last.op = "list_films" /\ last.sort = <<"-", "imdb_rating">>
    /\ last.result.kind = "found" /\ Len(last.result.val[1]) = 2
    /\ last.result.val[1][1].imdb_rating = <<7>>
    /\ last.result.val[1][2].imdb_rating = <<5>>
    /\ last.source[1].imdb_rating = <<5>>

----------------------------------------------------------------------------
(* services/persons.py: PersonService.get_person_by_id *)

\* f"person:{person_id}"
PersonKey(person_id) == "person:" \o person_id

\* person.json()
PersonJson(person) ==
    << <<"uuid", Str(person.uuid)>>, <<"full_name", person.full_name>>,
       <<"role", person.role>> >>

\* Person.parse_raw(cached) of a well-formed payload
PersonParseRaw(o) ==
    Person(Member(o, "uuid"), Member(o, "full_name"), Member(o, "role"))

\* Person(**p): p holds uuid and full_name, so role takes its default, None
PersonFromRef(p) == Person(p.uuid, p.full_name, <<>>)

\* the bool/should of three nested term queries
HasPerson(d, person_id) ==
    \E r \in DOMAIN Roles : \E j \in DOMAIN RoleList(d, Roles[r]) :
        RoleList(d, Roles[r])[j].uuid = person_id

\* elastic.search(index="movies", body=body) with "size": 1: the answers the
\* store may give, one per matching document it may score first
EsFindPerson(ms, person_id) ==
    IF \E i \in DOMAIN ms : HasPerson(ms[i], person_id)
    THEN { <<ms[i]>> : i \in {n \in DOMAIN ms : HasPerson(ms[n], person_id)} }
    ELSE { <<>> }

\* for role in [...]: for p in hits[0]["_source"].get(role, []):
\*     if p["uuid"] == person_id: the first such p, as <<p>>
FirstRef(src, person_id) ==
    LET all == RoleList(src, Roles[1]) \o RoleList(src, Roles[2])
               \o RoleList(src, Roles[3])
        found == SelectSeq(all, LAMBDA p : p.uuid = person_id)
    IN Take(found, 1)

PersonOut(r, c, h) == [result |-> r, cache |-> c, hit |-> h]

\* PersonService.get_person_by_id, given the store's answer to its query
get_person_by_id(c, hits, exists, t, person_id, fault) ==
    LET cache_key == PersonKey(person_id) IN
    IF fault = "redis_get" THEN PersonOut(Raised("redis_get"), c, FALSE)
    ELSE LET cached == RedisGet(c, t, cache_key) IN
    IF Truthy(cached)
    THEN IF cached.kind = "malformed"
         THEN PersonOut(Raised("parse_raw"), c, FALSE)
         ELSE PersonOut(Found(PersonParseRaw(cached.obj)), c, TRUE)
    ELSE IF fault = "es_search" THEN PersonOut(Raised("es_search"), c, FALSE)
    ELSE IF ~exists THEN PersonOut(Raised("NotFoundError"), c, FALSE)
    ELSE IF hits = <<>> THEN PersonOut(NoneResult, c, FALSE)
    ELSE LET p == FirstRef(hits[1], person_id) IN
         IF p = <<>> THEN PersonOut(NoneResult, c, FALSE)
         ELSE LET person == PersonFromRef(p[1]) IN
              IF fault = "redis_set"
              THEN PersonOut(Raised("redis_set"), c, FALSE)
              ELSE PersonOut(Found(person),
                             RedisSet(c, t, cache_key, PersonJson(person),
                                      CACHE_TTL),
                             FALSE)

PersonIds == {"p1", "p2", "p9"}

PersonKeys == {PersonKey(i) : i \in PersonIds}

\* GET persons/{person_id}: one whole get_person_by_id call
PersonGet(person_id, fault) ==
    \E hits \in EsFindPerson(movies, person_id) :
    \E o \in {get_person_by_id(cache, hits, indexExists, now, person_id, fault)} :
        /\ cache' = o.cache
        /\ last' = [op |-> "get_person_by_id", id |-> person_id,
                    fault |-> (IF o.result.kind = "raised"
                                  /\ o.result.err = fault
                               THEN fault ELSE "none"),
                    result |-> o.result, hit |-> o.hit,
                    hits |-> IF o.hit \/ o.result.kind = "raised" THEN <<>>
                             ELSE hits,
                    wrote |-> {k \in DOMAIN cache : o.cache[k] # cache[k]},
                    stored |-> o.cache[PersonKey(person_id)],
                    before |-> RedisGet(cache, now, PersonKey(person_id)).kind,
                    at |-> now, exists |-> indexExists]
        /\ UNCHANGED <<movies, indexExists, now, firstGet, writtenAt, task,
                       scrolls, scrollSize>>

InitPerson ==
    /\ indexExists \in BOOLEAN
    /\ movies \in {s \in PersonCollections : ~indexExists => s = <<>>}
    /\ cache \in {c \in [PersonKeys \cup IndexKeys -> {Absent, Malformed}] :
                    \A k \in DOMAIN c : k # PersonKey("p1") => c[k] = Absent}
    /\ scrollSize = 1
    /\ InitRest

NextPerson ==
    \/ \E person_id \in PersonIds, fault \in PersonFaults :
          PersonGet(person_id, fault)
    \/ Tick

SpecPerson == InitPerson /\ [][NextPerson]_vars

----------------------------------------------------------------------------
(* Claims about get_person_by_id, under SpecPerson *)

\* C15: a get_person_by_id call that misses the cache, with the store
\* answering: when the first hit holds the id under a role, the call returns
\* that person labelled with the role of the list it was found in, and stores
\* it under "person:{id}" with an expiry of 300 seconds; when there is no hit,
\* or the hit does not hold the id, it returns None and writes nothing.
C15_GetByIdLabelled ==
    (/\ last.op = "get_person_by_id" /\ last.fault = "none"
     /\ last.before = "absent" /\ last.exists) =>
        LET occ == Occurrences(last.hits)
            Here(j) == occ[j].uuid = last.id
        IN IF \E j \in DOMAIN occ : Here(j)
           THEN \E j \in DOMAIN occ :
                   /\ Here(j) /\ \A h \in 1..(j - 1) : ~Here(h)
                   /\ last.result.kind = "found"
                   /\ Str(last.result.val[1].uuid) = last.id
                   /\ last.result.val[1].full_name = occ[j].full_name
                   /\ last.result.val[1].role = <<occ[j].role>>
                   /\ last.wrote = {PersonKey(last.id)}
                   /\ last.stored.kind = "json"
                   /\ last.stored.exp = last.at + 300
                   /\ PersonParseRaw(last.stored.obj) = last.result.val[1]
           ELSE last.result = NoneResult /\ last.wrote = {}

----------------------------------------------------------------------------
(* main.py, lifespan: a build task started while another is still running *)

\* the documents the loader brings while the passes run
RaceDocs ==
    {d \in Docs : \/ d.id = "f1" /\ d.title = "T3"
                  \/ d.id = "f2" /\ d.title = "T2"}

InitRace ==
    /\ indexExists = TRUE
    /\ movies \in {s \in PersonCollections :
                     Len(s) <= 1 /\ \A i \in DOMAIN s : s[i].title = "T1"}
    /\ cache \in {c \in [CacheKeys -> {Absent} \cup PersonSeeds] :
                    /\ \A k \in CacheKeys \ {"persons_cache"} : c[k] = Absent
                    /\ c["persons_cache"].kind # "malformed"}
    /\ scrollSize = MaxBatch
    /\ InitRest

NextRace ==
    \/ BuilderStep(1)
    \/ BuilderStep(2)
    \/ \E d \in RaceDocs : LoadDoc(d)

SpecRace == InitRace /\ [][NextRace]_vars

----------------------------------------------------------------------------
(* Claims about overlapping build passes, under SpecRace *)

\* every task has ended
Quiescent == \A b \in Builders : task[b].pc \in {"done", "failed"}

\* pass b is the one both index keys were last written by
BothFrom(b) ==
    /\ task[b].wrote = IndexKeys
    /\ cache["genres_cache"] = Json(Dumps(task[b].genres_cache), NoExpiry)
    /\ cache["persons_cache"] = Json(Dumps(task[b].persons_cache), NoExpiry)

\* C16: the two index keys are written back as one: in no state has a pass
\* written one of them and not the other, and once every pass has ended, if any
\* wrote, both keys hold the mappings of one and the same pass.
C16_AtomicWriteBack ==
    /\ \A b \in Builders : task[b].wrote \in {{}, IndexKeys}
    /\ (Quiescent /\ \E b \in Builders : task[b].wrote # {}) =>
          \E b \in Builders : BothFrom(b)

\* pass b writes key k in this step
Writes(b, k) ==
    /\ k \notin task[b].wrote
    /\ k \in task'[b].wrote

\* the mapping pass b holds for key k, as the entry a set stores
Held(b, k) ==
    Json(Dumps(IF k = "genres_cache" THEN task[b].genres_cache
                                     ELSE task[b].persons_cache), NoExpiry)

\* C17: overlapping passes write the two index keys with no exclusion and no
\* merge at the write: a write by a pass leaves under the key exactly the
\* mapping that pass holds, whatever the key held, and nothing else changes an
\* index key; so each key ends with the mapping of the pass that wrote it last.
C17_LastWriteWins ==
    [][\A k \in IndexKeys :
          /\ \A b \in Builders : Writes(b, k) => cache'[k] = Held(b, k)
          /\ cache'[k] # cache[k] => \E b \in Builders : Writes(b, k)]_vars

\* both passes completed; the key holds the mapping of the one that wrote last,
\* and an id the other pass had merged and written is not in it
C17_Witness ==
    \E a, b \in Builders :
        /\ a # b /\ task[a].pc = "done" /\ task[b].pc = "done"
        /\ cache["persons_cache"] = Held(b, "persons_cache")
        /\ \E i \in DOMAIN task[a].persons_cache :
              task[a].persons_cache[i].k
                  \notin JsonKeys(cache["persons_cache"].obj)


\* the scan of a builder task is over and left no cursor behind
BuilderCursorReleased ==
    \A b \in Builders :
        ScanOver(b) =>
            /\ ~scrolls[b].open
            /\ scrolls[b].cleared = scrolls[b].opened
            /\ (~indexExists => scrolls[b].opened = 0)

\* C18: a scan that opened a cursor and drained it has cleared it once when the
\* scanning operation is over, in the builder's scroll_all_movies and in the
\* scan list_persons makes on a miss; when the index is absent the scan is
\* empty, raises nothing and opens no cursor.
C18_CursorLifecycle ==
    /\ BuilderCursorReleased
    /\ ListMiss =>
          IF indexExists
          THEN /\ last.scroll.opened = 1 /\ last.scroll.exhausted
               /\ last.scroll.cleared = 1 /\ ~last.scroll.open
          ELSE /\ last.result = Found(<<>>)
               /\ last.scroll.opened = 0


----------------------------------------------------------------------------
(* Claims about the tie-breaks: the builder under SpecBuilder, list_persons
   under SpecList *)

\* the name of the first reference to id u among the hits hs
FirstName(hs, u) ==
    LET occ == Occurrences(hs)
    IN occ[CHOOSE j \in DOMAIN occ :
              occ[j].uuid = u /\ \A h \in 1..(j - 1) : occ[h].uuid # u].full_name

\* C19: within a pass, a step leaves every id that is in a mapping where it is
\* and under the name it has; an id the step adds was not a key, is added once,
\* and a person id takes the name of its first reference in the batch merged.
C19_FirstWriterWins ==
    [][\A b \in {1} :
          (task'[b].pass = task[b].pass
           /\ task[b].pc \notin {"start", "read_persons"}) =>
              /\ IsPrefix(task[b].genres_cache, task'[b].genres_cache)
              /\ IsPrefix(task[b].persons_cache, task'[b].persons_cache)
              /\ \A i, j \in DOMAIN task'[b].genres_cache :
                    i # j => task'[b].genres_cache[i].k
                                 # task'[b].genres_cache[j].k
              /\ \A i, j \in DOMAIN task'[b].persons_cache :
                    i # j => task'[b].persons_cache[i].k
                                 # task'[b].persons_cache[j].k
              /\ \A i \in DOMAIN task'[b].persons_cache :
                    i > Len(task[b].persons_cache) =>
                        task'[b].persons_cache[i].v
                            = FirstName(task[b].hits,
                                        task'[b].persons_cache[i].k)]_vars

\* a completed scan met p1 under a second name and g1 under a second name, and
\* both kept the first
C19_Witness ==
    /\ task[1].pc = "write_genres"
    /\ \E i \in DOMAIN task[1].persons_cache :
          /\ task[1].persons_cache[i].k = "p1"
          /\ \E j \in DOMAIN Occurrences(task[1].yielded) :
                /\ Occurrences(task[1].yielded)[j].uuid = "p1"
                /\ Occurrences(task[1].yielded)[j].full_name
                       # task[1].persons_cache[i].v
    /\ \E i \in DOMAIN task[1].genres_cache :
          /\ task[1].genres_cache[i].k = "g1"
          /\ task[1].genres_cache[i].v = "Drama"
          /\ \E n \in DOMAIN task[1].yielded :
                \E j \in DOMAIN task[1].yielded[n].genres :
                    task[1].yielded[n].genres[j] = Tag("g1", "Dramedy")

\* C20: in the mapping list_persons accumulates on a miss, every id is there
\* once, under the name of its last reference in scan order (documents in scan
\* order, actors, directors, writers within a document), and the ids stand in
\* the order of their first references.
C20_LastWriterWins ==
    (ListMiss /\ indexExists) =>
        LET occ == Occurrences(last.source)
            First(u) == CHOOSE j \in DOMAIN occ :
                            occ[j].uuid = u /\ \A h \in 1..(j - 1) : occ[h].uuid # u
            Last(u) == CHOOSE j \in DOMAIN occ :
                           occ[j].uuid = u
                           /\ \A h \in (j + 1)..Len(occ) : occ[h].uuid # u
        IN /\ {last.acc[i].k : i \in DOMAIN last.acc}
                  = {occ[j].uuid : j \in DOMAIN occ}
           /\ \A i \in DOMAIN last.acc :
                 last.acc[i].v = occ[Last(last.acc[i].k)].full_name
           /\ \A i, j \in DOMAIN last.acc :
                 i < j => First(last.acc[i].k) < First(last.acc[j].k)

\* an id referred to under two names, with another id first met in between:
\* it has the later name and the earlier place
C20_Witness ==
    /\ ListMiss /\ last.result.kind = "found"
    /\ LET occ == Occurrences(last.source) IN
       \E a, b, c \in DOMAIN occ :
          /\ a < b /\ b < c
          /\ occ[a].uuid = occ[c].uuid /\ occ[a].full_name # occ[c].full_name
          /\ occ[b].uuid # occ[a].uuid
          /\ \A h \in (c + 1)..Len(occ) : occ[h].uuid # occ[a].uuid
          /\ \A h \in 1..(b - 1) : occ[h].uuid # occ[b].uuid
          /\ \E i, j \in DOMAIN last.acc :
                /\ i < j
                /\ last.acc[i] = [k |-> occ[a].uuid, v |-> occ[c].full_name]
                /\ last.acc[j].k = occ[b].uuid


----------------------------------------------------------------------------
(* main.py, lifespan: two build tasks over a collection that does not change *)

\* the collections the two passes scan
TwinCollections ==
    {s \in PersonCollections :
        \/ Len(s) <= 1 /\ \A i \in DOMAIN s : s[i].title = "T3"
        \/ Len(s) = 2 /\ s[1].title = "T1" /\ s[2].title \in {"T2", "T3"}}

InitTwin ==
    /\ indexExists = TRUE
    /\ movies \in TwinCollections
    /\ cache \in {c \in [CacheKeys -> {Absent} \cup GenreSeeds \cup PersonSeeds] :
                    /\ \A k \in FilmIds : c[k] = Absent
                    /\ c["genres_cache"] \in GenreSeeds \ {Malformed}
                    /\ c["persons_cache"] \in PersonSeeds \ {Malformed}
                    /\ c["genres_cache"] = Absent <=> c["persons_cache"] = Absent}
    /\ scrollSize \in 1..MaxBatch
    /\ InitRest

NextTwin == BuilderStep(1) \/ BuilderStep(2)

SpecTwin == InitTwin /\ [][NextTwin]_vars


----------------------------------------------------------------------------
(* Claims about two passes over an unchanged collection, under SpecTwin *)

\* the name of the first tag with id u in the documents ms
FirstTagName(ms, u) ==
    LET d == ms[CHOOSE n \in DOMAIN ms :
                   /\ \E j \in DOMAIN ms[n].genres : ms[n].genres[j].uuid = u
                   /\ \A h \in 1..(n - 1) :
                         \A j \in DOMAIN ms[h].genres : ms[h].genres[j].uuid # u]
    IN d.genres[CHOOSE j \in DOMAIN d.genres :
                   /\ d.genres[j].uuid = u
                   /\ \A h \in 1..(j - 1) : d.genres[h].uuid # u].name

\* entry e is the seed entry s with the ids of the documents merged in: every
\* seed member as it was, every other id once
MergedInto(e, s, ids) ==
    /\ e.kind = "json" /\ s.kind = "json"
    /\ JsonKeys(e.obj) = JsonKeys(s.obj) \cup ids
    /\ Len(e.obj) = Cardinality(JsonKeys(e.obj))
    /\ JsonSubset(s, e)

\* passes a and b read the same two seeds
SameSeed(a, b) ==
    /\ task[a].genres_cache_raw = task[b].genres_cache_raw
    /\ task[a].persons_cache_raw = task[b].persons_cache_raw

\* C21: when two passes that read the same seeds have both completed over a
\* collection that did not change, they hold the same two mappings, both index
\* keys hold them whichever pass wrote last, and each is the seed with the
\* collection's ids merged in.
C21_TwinPassesAgree ==
    \A a, b \in Builders :
        (a # b /\ task[a].pc = "done" /\ task[b].pc = "done" /\ SameSeed(a, b)) =>
            /\ task[a].genres_cache = task[b].genres_cache
            /\ task[a].persons_cache = task[b].persons_cache
            /\ \A k \in IndexKeys : cache[k] = Held(a, k) /\ cache[k] = Held(b, k)
            /\ MergedInto(cache["genres_cache"], task[a].genres_cache_raw,
                          TagIdsOf(movies))
            /\ \A u \in TagIdsOf(movies) \ JsonKeys(task[a].genres_cache_raw.obj) :
                  JsonValue(cache["genres_cache"].obj, u)
                      = FirstTagName(movies, u)
            /\ MergedInto(cache["persons_cache"], task[a].persons_cache_raw,
                          RefIdsOf(movies))
            /\ \A u \in RefIdsOf(movies) \ JsonKeys(task[a].persons_cache_raw.obj) :
                  JsonValue(cache["persons_cache"].obj, u) = FirstName(movies, u)

\* both passes read the seeds that were there at the start, so neither had
\* written when the other read; both completed over two documents and the keys
\* hold more than the seeds
C21_Witness ==
    /\ task[1].pc = "done" /\ task[2].pc = "done" /\ SameSeed(1, 2)
    /\ task[1].persons_cache_raw = task[1].before.persons
    /\ task[2].genres_cache_raw = task[2].before.genres
    /\ task[1].before.persons.kind = "json"
    /\ Len(movies) = 2
    /\ Len(cache["persons_cache"].obj) > Len(task[1].before.persons.obj)
    /\ JsonValue(cache["persons_cache"].obj, "p1") = "Alicia"


----------------------------------------------------------------------------
(* services/persons.py: list_persons asked for page after page *)

LastPage == 3       \* pages asked for, one after another

PageKeys == {ListKey(page, size) : page \in 1..LastPage, size \in Sizes}

InitPages ==
    /\ indexExists = TRUE
    /\ movies \in TwinCollections
    /\ cache = [k \in PageKeys \cup IndexKeys |-> Absent]
    /\ scrollSize = 1
    /\ InitRest

NextPages ==
    \E page \in 1..LastPage, size \in Sizes, fault \in ListFaults :
        ListPage(page, size, fault)

SpecPages == InitPages /\ [][NextPages]_vars

----------------------------------------------------------------------------
(* Claims about the pages of list_persons, under SpecPages *)

\* page p of size s has been computed and is in the cache
PageCached(p, s) == RedisGet(cache, now, ListKey(p, s)).kind = "json"

\* the ids on that page, and how many entries it has
PageIds(p, s) == JsonKeys(cache[ListKey(p, s)].obj)
PageLen(p, s) == Len(cache[ListKey(p, s)].obj)

RECURSIVE PagesLen(_, _)
\* the entries of pages 1..n of size s together
PagesLen(n, s) == IF n = 0 THEN 0 ELSE PagesLen(n - 1, s) + PageLen(n, s)

\* C22: over an unchanged collection and for each size, the pages computed so
\* far hold no id twice, neither within a page nor across two pages; pages
\* 1..n together hold the first n*size ids of the collection, all of them when
\* there are no more; a page after an empty page is empty; and what a call
\* returns, computed or served from the cache, is the page in the cache.
C22_PagesPartition ==
    /\ (last.op = "list_persons" /\ last.result.kind = "found") =>
          /\ PageCached(last.page, last.size)
          /\ last.result.val[1]
                 = ListPersons(Loads(cache[ListKey(last.page, last.size)].obj))
    /\ \A s \in Sizes :
          /\ \A p \in 1..LastPage :
                PageCached(p, s) =>
                    /\ PageLen(p, s) = Cardinality(PageIds(p, s))
                    /\ PageIds(p, s) \subseteq RefIdsOf(movies)
          /\ \A p, q \in 1..LastPage :
                (p < q /\ PageCached(p, s) /\ PageCached(q, s)) =>
                    /\ PageIds(p, s) \cap PageIds(q, s) = {}
                    /\ PageLen(p, s) = 0 => PageLen(q, s) = 0
          /\ \A n \in 1..LastPage :
                (\A p \in 1..n : PageCached(p, s)) =>
                    PagesLen(n, s)
                        = IF n * s < Cardinality(RefIdsOf(movies))
                          THEN n * s ELSE Cardinality(RefIdsOf(movies))

\* three persons in pages of two: the third page is empty, the first two hold
\* the three ids, and the second was just served from the cache
C22_Witness ==
    /\ last.op = "list_persons" /\ last.hit /\ last.page = 2 /\ last.size = 2
    /\ \A p \in 1..3 : PageCached(p, 2)
    /\ PageLen(1, 2) = 2 /\ PageLen(2, 2) = 1 /\ PageLen(3, 2) = 0
    /\ PageIds(1, 2) \cup PageIds(2, 2) = RefIdsOf(movies)
    /\ Len(last.result.val[1]) = 1
    /\ \A p \in 1..3 : PageCached(p, 1)

====
